---- MODULE Spec2Model ----
(***************************************************************************)
(* Model of scrape.py: the PsychonautWiki fetch loop, the reconciliation   *)
(* loop that merges PsychonautWiki (Source A, "pw") and TripSit (Source B, *)
(* "ts") substance records, and the output writer.                         *)
(*                                                                         *)
(* Conventions.                                                            *)
(*  - A Python str is the sequence of its code points, so that lower(),    *)
(*    len(), comparison and join are computed, e.g. "LSD" = <<76,83,68>>.  *)
(*  - An optional value (a dict key that may be missing, a variable that   *)
(*    may hold None) is a sequence of length at most one: None or Some(v). *)
(*  - A substance record is a dict; the model gives it every key the merge *)
(*    reads, None standing for a missing key.  The dict {} is EmptyDict.   *)
(*  - Python lists hold references.  pw_obj and ts_obj are the objects     *)
(*    (reference -> current content); the lists hold references.           *)
(*  - Opaque values the merge only copies (a url, a duration block, a      *)
(*    combo status text) are TLA+ strings or small records.                *)
(*  - The pass-through fields experiencesUrl, summary, reagents, classes,  *)
(*    toxicity, addictionPotential, tolerance, crossTolerances and the     *)
(*    unused ts_bioavailability are not represented.                       *)
(***************************************************************************)
EXTENDS Integers, Sequences, FiniteSets, TLC

None == <<>>
Some(v) == <<v>>

\* ------------------------------------------------------------------ strings

\* str.lower() on one code point: "A".."Z" map to "a".."z".
lower_char(c) == IF c >= 65 /\ c <= 90 THEN c + 32 ELSE c

lower(s) == IF s = <<>> THEN <<>> ELSE [i \in 1..Len(s) |-> lower_char(s[i])]

\* Python's str "<": lexicographic by code point, a proper prefix first.
RECURSIVE str_lt(_, _)
str_lt(a, b) ==
    IF a = <<>> THEN b # <<>>
    ELSE IF b = <<>> THEN FALSE
    ELSE IF Head(a) # Head(b) THEN Head(a) < Head(b)
    ELSE str_lt(Tail(a), Tail(b))

\* sorted(set_of_str): ascending, as a list.
RECURSIVE sorted(_)
sorted(S) ==
    IF S = {} THEN <<>>
    ELSE LET m == CHOOSE x \in S : \A y \in S \ {x} : str_lt(x, y)
         IN <<m>> \o sorted(S \ {m})

\* sep.join(xs)
RECURSIVE join(_, _)
join(sep, xs) ==
    IF xs = <<>> THEN <<>>
    ELSE IF Len(xs) = 1 THEN xs[1]
    ELSE xs[1] \o sep \o join(sep, Tail(xs))

comma == <<44>>

\* The elements of a list, as a set.
Range(xs) == {xs[i] : i \in 1..Len(xs)}

\* dict.get(key, []) for a list-valued key.
get_list(opt) == IF opt = None THEN <<>> ELSE opt[1]

\* ------------------------------------------------------------ fixed tables

ts_combo_ignore == { <<98, 101, 110, 122, 111, 115>> }   \* "benzos"

ts_combo_transformations ==
    (* "lsd": "LSD" *)
    <<108, 115, 100>> :> <<76, 83, 68>> @@
    (* "mushrooms": "Mushrooms" *)
    <<109, 117, 115, 104, 114, 111, 111, 109, 115>> :> <<77, 117, 115, 104, 114, 111, 111, 109, 115>> @@
    (* "dmt": "DMT" *)
    <<100, 109, 116>> :> <<68, 77, 84>> @@
    (* "mescaline": "Mescaline" *)
    <<109, 101, 115, 99, 97, 108, 105, 110, 101>> :> <<77, 101, 115, 99, 97, 108, 105, 110, 101>> @@
    (* "dox": "DOx" *)
    <<100, 111, 120>> :> <<68, 79, 120>> @@
    (* "nbomes": "NBOMes" *)
    <<110, 98, 111, 109, 101, 115>> :> <<78, 66, 79, 77, 101, 115>> @@
    (* "2c-x": "2C-x" *)
    <<50, 99, 45, 120>> :> <<50, 67, 45, 120>> @@
    (* "2c-t-x": "2C-T-x" *)
    <<50, 99, 45, 116, 45, 120>> :> <<50, 67, 45, 84, 45, 120>> @@
    (* "amt": "aMT" *)
    <<97, 109, 116>> :> <<97, 77, 84>> @@
    (* "5-meo-xxt": "5-MeO-xxT" *)
    <<53, 45, 109, 101, 111, 45, 120, 120, 116>> :> <<53, 45, 77, 101, 79, 45, 120, 120, 84>> @@
    (* "cannabis": "Cannabis" *)
    <<99, 97, 110, 110, 97, 98, 105, 115>> :> <<67, 97, 110, 110, 97, 98, 105, 115>> @@
    (* "ketamine": "Ketamine" *)
    <<107, 101, 116, 97, 109, 105, 110, 101>> :> <<75, 101, 116, 97, 109, 105, 110, 101>> @@
    (* "mxe": "MXE" *)
    <<109, 120, 101>> :> <<77, 88, 69>> @@
    (* "dxm": "DXM" *)
    <<100, 120, 109>> :> <<68, 88, 77>> @@
    (* "pcp": "PCP" *)
    <<112, 99, 112>> :> <<80, 67, 80>> @@
    (* "nitrous": "Nitrous" *)
    <<110, 105, 116, 114, 111, 117, 115>> :> <<78, 105, 116, 114, 111, 117, 115>> @@
    (* "amphetamines": "Amphetamines" *)
    <<97, 109, 112, 104, 101, 116, 97, 109, 105, 110, 101, 115>> :> <<65, 109, 112, 104, 101, 116, 97, 109, 105, 110, 101, 115>> @@
    (* "mdma": "MDMA" *)
    <<109, 100, 109, 97>> :> <<77, 68, 77, 65>> @@
    (* "cocaine": "Cocaine" *)
    <<99, 111, 99, 97, 105, 110, 101>> :> <<67, 111, 99, 97, 105, 110, 101>> @@
    (* "caffeine": "Caffeine" *)
    <<99, 97, 102, 102, 101, 105, 110, 101>> :> <<67, 97, 102, 102, 101, 105, 110, 101>> @@
    (* "alcohol": "Alcohol" *)
    <<97, 108, 99, 111, 104, 111, 108>> :> <<65, 108, 99, 111, 104, 111, 108>> @@
    (* "ghb/gbl": "GHB/GBL" *)
    <<103, 104, 98, 47, 103, 98, 108>> :> <<71, 72, 66, 47, 71, 66, 76>> @@
    (* "opioids": "Opioids" *)
    <<111, 112, 105, 111, 105, 100, 115>> :> <<79, 112, 105, 111, 105, 100, 115>> @@
    (* "tramadol": "Tramadol" *)
    <<116, 114, 97, 109, 97, 100, 111, 108>> :> <<84, 114, 97, 109, 97, 100, 111, 108>> @@
    (* "benzodiazepines": "Benzodiazepines" *)
    <<98, 101, 110, 122, 111, 100, 105, 97, 122, 101, 112, 105, 110, 101, 115>> :> <<66, 101, 110, 122, 111, 100, 105, 97, 122, 101, 112, 105, 110, 101, 115>> @@
    (* "maois": "MAOIs" *)
    <<109, 97, 111, 105, 115>> :> <<77, 65, 79, 73, 115>> @@
    (* "ssris": "SSRIs" *)
    <<115, 115, 114, 105, 115>> :> <<83, 83, 82, 73, 115>>

\* --------------------------------------------------------------- resolver

EmptyDict ==
    [name |-> None, pretty_name |-> None, aliases |-> None, url |-> None,
     roas |-> None, combos |-> None]

\* Truthiness of a dict: it has at least one key.
truthy(d) == d # EmptyDict

substance_name_match(name, substance) ==
    LET lower_name == lower(name)
        aliases == get_list(substance.aliases)
    IN \/ substance.name # None /\ lower_name = lower(substance.name[1])
       \/ substance.pretty_name # None /\ lower_name = lower(substance.pretty_name[1])
       \/ \E i \in 1..Len(aliases) : lower_name = lower(aliases[i])

\* Variant: the last match in list order.
find_last_substance_in_data(data, obj, name) ==
    LET hits == {i \in 1..Len(data) : substance_name_match(name, obj[data[i]])}
    IN IF hits = {} THEN None
       ELSE Some(data[CHOOSE i \in hits : \A j \in hits : i >= j])

\* next((s for s in data if ...), None): the first match in list order.
find_substance_in_data(data, obj, name) ==
    LET hits == {i \in 1..Len(data) : substance_name_match(name, obj[data[i]])}
    IN IF hits = {} THEN None
       ELSE Some(data[CHOOSE i \in hits : \A j \in hits : i <= j])

\* x == y for two list elements: the same object, or dicts of equal content.
py_eq(obj, x, y) == x = y \/ obj[x] = obj[y]

\* Variant: the matched record stays in its list.
list_remove_nothing(data, obj, x) == data

\* list.remove(x): drops the first element equal to x.
list_remove(data, obj, x) ==
    LET i == CHOOSE k \in 1..Len(data) :
                 /\ py_eq(obj, data[k], x)
                 /\ \A j \in 1..(k - 1) : ~py_eq(obj, data[j], x)
    IN SubSeq(data, 1, i - 1) \o SubSeq(data, i + 1, Len(data))

\* sorted(set(lower names of pw + lower names of ts))
names_of(data, obj) ==
    {lower(IF obj[data[i]].name = None THEN <<>> ELSE obj[data[i]].name[1]) :
        i \in 1..Len(data)}

build_all_substance_names(pw_data, pw, ts_data, ts) ==
    sorted(names_of(pw_data, pw) \cup names_of(ts_data, ts))

\* ----------------------------------------------------------- field mergers

JsonNull == "null"

\* filter(lambda n: n is not None and len(n) > 0, opts), the values unwrapped.
nonempty(opts) ==
    LET kept == SelectSeq(opts, LAMBDA n : n # None /\ Len(n[1]) > 0)
    IN IF kept = <<>> THEN <<>> ELSE [i \in 1..Len(kept) |-> kept[i][1]]

\* A list of str as a list of (present) optional str.
wrap(xs) == IF xs = <<>> THEN <<>> ELSE [i \in 1..Len(xs) |-> Some(xs[i])]

\* Variant: the last of the shortest.
min_by_len_last(names) ==
    names[CHOOSE i \in 1..Len(names) :
              /\ \A j \in 1..Len(names) : Len(names[i]) <= Len(names[j])
              /\ \A j \in (i + 1)..Len(names) : Len(names[j]) > Len(names[i])]

\* min(names, key=len) on a non-empty list: the first of the shortest.
min_by_len(names) ==
    names[CHOOSE i \in 1..Len(names) :
              /\ \A j \in 1..Len(names) : Len(names[i]) <= Len(names[j])
              /\ \A j \in 1..(i - 1) : Len(names[j]) > Len(names[i])]

\* [pw name, ts pretty_name], the values that are present and non-empty.
display_names(pw, ts) == nonempty(<<pw.name, ts.pretty_name>>)

\* Variant: the chosen name is removed as written, not lowercased.
merged_aliases_keeps_name(pw, ts, name) ==
    LET all == nonempty(<<pw.name, ts.pretty_name>>
                        \o wrap(get_list(pw.aliases))
                        \o wrap(get_list(ts.aliases)))
        lowered == {lower(n) : n \in Range(all)}
    IN sorted(lowered \ {name})

\* The sorted lowercase aliases, the chosen name excluded.
merged_aliases(pw, ts, name) ==
    LET all == nonempty(<<pw.name, ts.pretty_name>>
                        \o wrap(get_list(pw.aliases))
                        \o wrap(get_list(ts.aliases)))
        lowered == {lower(n) : n \in Range(all)}
    IN sorted(lowered \ {lower(name)})

\* for key, combo_data in combos.items(): from item k on.  Every item passed
\* gets its "name" set in place; a key missing from the table raises KeyError
\* and leaves the earlier items changed.
RECURSIVE combo_loop(_, _, _)
combo_loop(items, k, acc) ==
    IF k > Len(items)
    THEN [raised |-> FALSE, combos |-> items, interactions |-> acc]
    ELSE IF items[k].key \in ts_combo_ignore
    THEN combo_loop(items, k + 1, acc)
    ELSE IF items[k].key \notin DOMAIN ts_combo_transformations
    THEN [raised |-> TRUE, combos |-> items, interactions |-> acc]
    ELSE LET combo_data == [items[k].data EXCEPT
                               !.name = Some(ts_combo_transformations[items[k].key])]
         IN combo_loop([items EXCEPT ![k].data = combo_data], k + 1,
                       Append(acc, combo_data))

\* sorted(interactions, key=lambda i: i["name"]): a stable sort.
RECURSIVE sorted_by_name(_)
sorted_by_name(xs) ==
    IF xs = <<>> THEN <<>>
    ELSE LET front == sorted_by_name(SubSeq(xs, 1, Len(xs) - 1))
             x == xs[Len(xs)]
             p == Cardinality({i \in 1..Len(front) :
                                  ~str_lt(x.name[1], front[i].name[1])})
         IN SubSeq(front, 1, p) \o <<x>> \o SubSeq(front, p + 1, Len(front))

\* Variant: a route list with some duration is kept whole.
roaresult_all_or_nothing(roas) ==
    IF \E i \in 1..Len(roas) : roas[i].duration[1] # JsonNull THEN roas ELSE <<>>

\* The routes kept by the filter loop (every route has its "duration" key).
roaresult(roas) == SelectSeq(roas, LAMBDA roai : roai.duration[1] # JsonNull)

tripsit_url(ts) == [base |-> "https://drugs.tripsit.me/", path |-> ts.name[1]]

Raised(error, combos) ==
    [outcome |-> "raise", error |-> error, combos |-> combos, name |-> None,
     entry |-> None]

\* The loop body from "ts_properties = ..." on, for the dicts found (EmptyDict
\* for a source without a match, not both): what it does, the TripSit record's
\* combos when it ends, and the entry it appends.
merge(pw, ts) ==
    LET names == display_names(pw, ts)
        items == get_list(ts.combos)
        c == IF items # <<>> THEN combo_loop(items, 1, <<>>)
             ELSE [raised |-> FALSE, combos |-> items, interactions |-> <<>>]
        combos == IF ts.combos = None THEN None ELSE Some(c.combos)
        pw_roas == get_list(pw.roas)
    IN IF pw.url = None /\ ts.name = None THEN Raised("KeyError", ts.combos)
       ELSE IF names = <<>> THEN Raised("ValueError", ts.combos)
       ELSE IF c.raised THEN Raised("KeyError", combos)
       ELSE IF \E i \in 1..Len(pw_roas) : pw_roas[i].duration = None
       THEN Raised("KeyError", combos)
       ELSE LET name == min_by_len(names)
                aliases == merged_aliases(pw, ts, name)
                roas == roaresult(pw_roas)
            IN IF Len(roas) < 1
               THEN [outcome |-> "drop", error |-> "", combos |-> combos,
                     name |-> Some(name), entry |-> None]
               ELSE [outcome |-> "emit", error |-> "", combos |-> combos,
                     name |-> Some(name),
                     entry |-> Some(
                        [url |-> IF pw.url # None THEN pw.url[1] ELSE tripsit_url(ts),
                         name |-> name,
                         aliases |-> aliases,
                         aliasesStr |-> join(comma, aliases),
                         roas |-> roas,
                         interactions |->
                            IF items # <<>>
                            THEN Some(sorted_by_name(c.interactions))
                            ELSE None])]

\* -------------------------------------------------------------------- state

VARIABLES
    pw_substance_data,    \* list of references to PsychonautWiki records
    ts_substances_data,   \* list of references to TripSit records
    pw_obj,               \* reference -> content of a PsychonautWiki record
    ts_obj,               \* reference -> content of a TripSit record
    ts_input,             \* history: ts_obj as the TripSit response gave it
    all_substance_names,  \* the sorted names the reconciliation loop visits
    pos,                  \* how many of them the loop has visited
    substance_data,       \* the output list
    log,                  \* history: per visited name, the references found,
                          \*   the outcome ("skip", "raise", "drop", "emit"),
                          \*   the display name chosen and the entry's index
    pw_substance_urls_data, \* None, or Some(list of the items to fetch)
    idx,                  \* how many items the fetch loop has finished
    scraped,              \* None, or Some(name and aliases scraped for the item)
    attempt,              \* try_three_times: the attempts that raised
    abort,                \* history: "" or how the run was ended
    pc,                   \* "urls", "page", "query", "merge", "done", "exit"
    exit_code,            \* None while running
    output_file           \* None until written

merge_vars ==
    <<pw_substance_data, ts_substances_data, pw_obj, ts_obj, ts_input,
      all_substance_names, pos, substance_data, log>>

fetch_vars == <<pw_substance_urls_data, idx, scraped, attempt>>

vars == <<merge_vars, fetch_vars, abort, pc, exit_code, output_file>>

\* ------------------------------------------------------ reconciliation loop

\* One iteration of "for name in all_substance_names".  An exception is not
\* caught: the interpreter ends with exit code 1.
MergeIteration ==
    /\ pc = "merge"
    /\ pos < Len(all_substance_names)
    /\ \E pw_found \in {find_substance_in_data(pw_substance_data, pw_obj,
                                               all_substance_names[pos + 1])},
          ts_found \in {find_substance_in_data(ts_substances_data, ts_obj,
                                               all_substance_names[pos + 1])} :
          LET name == all_substance_names[pos + 1]
              pw_hit == pw_found # None /\ truthy(pw_obj[pw_found[1]])
              ts_hit == ts_found # None /\ truthy(ts_obj[ts_found[1]])
              pw_substance == IF pw_hit THEN pw_obj[pw_found[1]] ELSE EmptyDict
              ts_substance == IF ts_hit THEN ts_obj[ts_found[1]] ELSE EmptyDict
              skip == ~truthy(pw_substance) /\ ~truthy(ts_substance)
          IN \E r \in {IF skip
                       THEN [outcome |-> "skip", error |-> "", combos |-> None,
                             name |-> None, entry |-> None]
                       ELSE merge(pw_substance, ts_substance)} :
                /\ pw_substance_data' =
                      IF pw_hit
                      THEN list_remove(pw_substance_data, pw_obj, pw_found[1])
                      ELSE pw_substance_data
                /\ ts_substances_data' =
                      IF ts_hit
                      THEN list_remove(ts_substances_data, ts_obj, ts_found[1])
                      ELSE ts_substances_data
                /\ ts_obj' = IF ts_hit
                             THEN [ts_obj EXCEPT ![ts_found[1]].combos = r.combos]
                             ELSE ts_obj
                /\ substance_data' = IF r.outcome = "emit"
                                     THEN Append(substance_data, r.entry[1])
                                     ELSE substance_data
                /\ log' = Append(log, [name |-> name, pw |-> pw_found,
                                       ts |-> ts_found,
                                       outcome |-> r.outcome, error |-> r.error,
                                       chosen |-> r.name,
                                       entry |-> IF r.outcome = "emit"
                                                 THEN Some(Len(substance_data) + 1)
                                                 ELSE None])
                /\ pos' = pos + 1
                /\ pc' = IF r.outcome = "raise" THEN "exit" ELSE "merge"
                /\ exit_code' = IF r.outcome = "raise" THEN Some(1) ELSE exit_code
                /\ abort' = IF r.outcome = "raise" THEN "uncaught" ELSE abort
    /\ UNCHANGED <<pw_obj, ts_input, all_substance_names, output_file, fetch_vars>>

\* After the loop: json.dumps(substance_data) written to the output file.
WriteOutput ==
    /\ pc = "merge"
    /\ pos = Len(all_substance_names)
    /\ output_file' = Some(substance_data)
    /\ pc' = "done"
    /\ exit_code' = Some(0)
    /\ UNCHANGED <<merge_vars, fetch_vars, abort>>

\* -------------------------------------------------------------------- inputs

MaxPw == 2
MaxTs == 1
MaxRoas == 2
MaxCombos == 2

str_A == <<65>>
str_a == <<97>>
str_B == <<66>>
str_b == <<98>>
str_AA == <<65, 65>>
str_aa == <<97, 97>>
str_Aa == <<65, 97>>
key_lsd == <<108, 115, 100>>
key_dmt == <<100, 109, 116>>
key_benzos == <<98, 101, 110, 122, 111, 115>>
key_xyz == <<120, 121, 122>>

SeqsUpTo(S, n) == UNION {[1..k -> S] : k \in 0..n}

refs(objs) == IF objs = <<>> THEN <<>> ELSE [i \in 1..Len(objs) |-> i]

pw_record(name, aliases, roas) ==
    [name |-> Some(name), pretty_name |-> None, aliases |-> Some(aliases),
     url |-> Some([base |-> "https://psychonautwiki.org/wiki/", path |-> name]),
     roas |-> Some(roas), combos |-> None]

ts_record(name, pretty_name, aliases, combos) ==
    [name |-> Some(name), pretty_name |-> pretty_name, aliases |-> aliases,
     url |-> None, roas |-> None, combos |-> combos]

RouteWithDuration == [name |-> "oral", duration |-> Some("4-6h")]
RouteNullDuration == [name |-> "smoked", duration |-> Some(JsonNull)]
RouteNoDurationKey == [name |-> "rectal", duration |-> None]

\* A combos dict in insertion order: distinct keys, each with its data dict.
ComboDicts(keys, n) ==
    {[i \in 1..Len(ks) |-> [key |-> ks[i],
                            data |-> [status |-> "Caution", name |-> None]]] :
        ks \in {q \in SeqsUpTo(keys, n) :
                   \A i, j \in 1..Len(q) : i # j => q[i] # q[j]}}

\* Records with few field values, for lists of several records.
PwRecordsThin ==
    {pw_record(n, al, ro) :
        n \in {str_A, str_B, str_AA},
        al \in {<<>>, <<str_a>>},
        ro \in {<<>>, <<RouteWithDuration>>}}

TsRecordsThin ==
    {ts_record(n, pn, al, None) :
        n \in {str_a, str_b, str_aa},
        pn \in {None, Some(str_B)},
        al \in {None, Some(<<str_A>>)}}

\* Records with many field values, for a single pair.
PwRecordsRich ==
    {pw_record(n, al, ro) :
        n \in {str_A, str_B, str_AA},
        al \in {<<>>, <<str_a>>, <<str_b>>, <<str_a, str_b>>},
        ro \in SeqsUpTo({RouteWithDuration, RouteNullDuration,
                         RouteNoDurationKey}, MaxRoas)}

TsRecordsRich ==
    {ts_record(n, pn, al, co) :
        n \in {str_a, str_b},
        pn \in {None, Some(<<>>), Some(str_B), Some(str_Aa)},
        al \in {None, Some(<<str_A>>), Some(<<str_b, str_Aa>>)},
        co \in {None} \cup
               {Some(d) : d \in ComboDicts({key_lsd, key_dmt, key_benzos, key_xyz},
                                           MaxCombos)}}

\* --------------------------------------------------------------- fetch loop

MaxUrls == 2

str_Experience == <<69, 120, 112, 101, 114, 105, 101, 110, 99, 101, 58>>

\* str.startswith
startswith(s, prefix) ==
    Len(s) >= Len(prefix) /\ SubSeq(s, 1, Len(prefix)) = prefix

\* name: the page's first heading (None without one); soup: the page.
pw_should_skip(name, soup) ==
    \/ name = None
    \/ name[1] = <<>>
    \/ startswith(name[1], str_Experience)
    \/ ~soup.roa_section

\* sorted(filter(lambda n: n != name, cleaned_common_names | {substance["name"]}))
common_names_of(name, soup, substance) ==
    sorted((soup.common_names \cup {substance.name}) \ {name})

\* What the items query may return: names and urls of substances.
UrlItems == {[name |-> n, url |-> n] : n \in {str_A, str_b}}

\* What a page may hold once parsed.
Pages ==
    [heading : {None, Some(str_A), Some(str_B), Some(str_Experience \o str_A)},
     roa_section : BOOLEAN,
     common_names : {{}, {str_a}}]

\* What the point query may return: a list of datasets.
Datasets ==
    {<<>>,
     <<[roas |-> <<>>]>>,
     <<[roas |-> <<RouteWithDuration>>]>>,
     <<[roas |-> <<RouteNullDuration, RouteWithDuration>>]>>,
     <<[roas |-> <<RouteWithDuration>>], [roas |-> <<>>]>>}

\* except KeyboardInterrupt: print, exit(0)
except_KeyboardInterrupt ==
    [pc |-> "exit", exit_code |-> Some(0), abort |-> "interrupt"]

\* Variant: the failure is logged and the loop goes on.
except_any_continues ==
    [pc |-> "page", exit_code |-> None, abort |-> "exception"]

\* except: print the trace, exit(1)
except_any ==
    [pc |-> "exit", exit_code |-> Some(1), abort |-> "exception"]

\* An exception no handler catches: the interpreter prints it and exits 1.
uncaught ==
    [pc |-> "exit", exit_code |-> Some(1), abort |-> "uncaught"]

Handle(h) ==
    /\ pc' = h.pc
    /\ exit_code' = h.exit_code
    /\ abort' = h.abort

MaxAttempts == 3

\* try_three_times, "while attempt < 3": another attempt is made.
may_attempt(n) == n < MaxAttempts

\* One attempt of the items query inside try_three_times (lines 164-166).
\* Without a result, enumerate(None) raises outside every handler.
FetchUrlsAttempt ==
    /\ pc = "urls"
    /\ may_attempt(attempt)
    /\ \/ \E items \in SeqsUpTo(UrlItems, MaxUrls) :
             /\ pw_substance_urls_data' = Some(items)
             /\ attempt' = 0
             /\ pc' = "page"
             /\ UNCHANGED <<exit_code, abort>>
       \/ /\ attempt' = attempt + 1
          /\ IF may_attempt(attempt + 1)
             THEN UNCHANGED <<pc, exit_code, abort>>
             ELSE Handle(uncaught)
          /\ UNCHANGED pw_substance_urls_data
    /\ UNCHANGED <<merge_vars, idx, scraped, output_file>>

\* The loop body up to the point query, for item idx + 1 (lines 169-202): the
\* page is requested and parsed, then skipped or scraped for its names.
FetchPage ==
    /\ pc = "page"
    /\ idx < Len(pw_substance_urls_data[1])
    /\ \/ /\ \E soup \in Pages :
                LET substance == pw_substance_urls_data[1][idx + 1]
                    name == soup.heading
                IN IF pw_should_skip(name, soup)
                   THEN /\ idx' = idx + 1
                        /\ UNCHANGED <<scraped, pc>>
                   ELSE /\ scraped' = Some([name |-> name[1],
                                            aliases |-> common_names_of(name[1], soup,
                                                                        substance)])
                        /\ pc' = "query"
                        /\ UNCHANGED idx
          /\ UNCHANGED <<exit_code, abort>>
       \/ /\ Handle(except_any)
          /\ UNCHANGED <<idx, scraped>>
       \/ /\ Handle(except_KeyboardInterrupt)
          /\ UNCHANGED <<idx, scraped>>
    /\ attempt' = 0
    /\ UNCHANGED <<merge_vars, pw_substance_urls_data, output_file>>

\* One attempt of the point query inside try_three_times, and what the call
\* site does with the result (lines 280-315): the query returns datasets, or
\* raises and is attempted again, or the result lacks what the call site
\* reads, or the user interrupts.  Without a result after the last attempt,
\* len(None) raises inside the loop's try.
QueryAttempt ==
    /\ pc = "query"
    /\ may_attempt(attempt)
    /\ \/ \E data \in Datasets :
             /\ IF Len(data) = 0
                THEN UNCHANGED <<pw_obj, pw_substance_data>>
                ELSE /\ pw_obj' = Append(pw_obj,
                            [name |-> Some(scraped[1].name),
                             pretty_name |-> None,
                             aliases |-> Some(scraped[1].aliases),
                             url |-> Some([base |-> "https://psychonautwiki.org/wiki/",
                                           path |-> pw_substance_urls_data[1][idx + 1].url]),
                             roas |-> Some(data[1].roas),
                             combos |-> None])
                     /\ pw_substance_data' = Append(pw_substance_data,
                                                    Len(pw_obj) + 1)
             /\ idx' = idx + 1
             /\ scraped' = None
             /\ attempt' = 0
             /\ pc' = "page"
             /\ UNCHANGED <<exit_code, abort>>
       \/ /\ attempt' = attempt + 1
          /\ IF may_attempt(attempt + 1)
             THEN UNCHANGED <<pc, exit_code, abort>>
             ELSE Handle(except_any)
          /\ UNCHANGED <<pw_obj, pw_substance_data, idx, scraped>>
       \/ /\ Handle(except_any)
          /\ UNCHANGED <<pw_obj, pw_substance_data, idx, scraped, attempt>>
       \/ /\ Handle(except_KeyboardInterrupt)
          /\ UNCHANGED <<pw_obj, pw_substance_data, idx, scraped, attempt>>
    /\ UNCHANGED <<ts_substances_data, ts_obj, ts_input, all_substance_names,
                   pos, substance_data, log, pw_substance_urls_data, output_file>>

\* The loop is exhausted: the names to reconcile are built (lines 325-341).
FetchLoopEnd ==
    /\ pc = "page"
    /\ idx = Len(pw_substance_urls_data[1])
    /\ all_substance_names' =
          build_all_substance_names(pw_substance_data, pw_obj,
                                    ts_substances_data, ts_obj)
    /\ pc' = "merge"
    /\ UNCHANGED <<pw_substance_data, ts_substances_data, pw_obj, ts_obj,
                   ts_input, pos, substance_data, log, fetch_vars, abort,
                   exit_code, output_file>>

\* A user interrupt outside the fetch loop's try is caught nowhere; the
\* interpreter ends the process (status 1, or 130 when it re-raises SIGINT).
InterruptOutsideLoop ==
    /\ pc \in {"urls", "merge"}
    /\ pc' = "exit"
    /\ \E code \in {1, 130} : exit_code' = Some(code)
    /\ abort' = "uncaught interrupt"
    /\ UNCHANGED <<merge_vars, fetch_vars, output_file>>

\* The state on reaching the reconciliation loop with the given records.
InitMerge(pw, ts) ==
    /\ pw_obj = pw
    /\ ts_obj = ts
    /\ ts_input = ts
    /\ pw_substance_data = refs(pw)
    /\ ts_substances_data = refs(ts)
    /\ all_substance_names = build_all_substance_names(refs(pw), pw, refs(ts), ts)
    /\ pos = 0
    /\ substance_data = <<>>
    /\ log = <<>>
    /\ pw_substance_urls_data = None
    /\ idx = 0
    /\ scraped = None
    /\ attempt = 0
    /\ abort = ""
    /\ pc = "merge"
    /\ exit_code = None
    /\ output_file = None

\* The cached PsychonautWiki records were loaded (a non-empty list, so the
\* fetch loop is skipped) and the TripSit response was read.
Init ==
    \E pw \in SeqsUpTo(PwRecordsThin, MaxPw) \ {<<>>},
       ts \in SeqsUpTo(TsRecordsThin, MaxTs) : InitMerge(pw, ts)

Next == MergeIteration \/ WriteOutput

Spec == Init /\ [][Next]_vars

\* The same point of the program, with one record of each source at most.
InitFields ==
    \E pw \in {<<>>} \cup {<<r>> : r \in PwRecordsRich},
       ts \in {<<>>} \cup {<<r>> : r \in TsRecordsRich} : InitMerge(pw, ts)

SpecFields == InitFields /\ [][Next]_vars

\* No cache file (or an empty one): the TripSit response was read and the
\* PsychonautWiki items are about to be queried.
TsRecordsRun ==
    {ts_record(str_a, None, None, None), ts_record(str_b, Some(str_B), None, None)}

InitRun ==
    /\ \E ts \in SeqsUpTo(TsRecordsRun, MaxTs) :
          /\ ts_obj = ts
          /\ ts_input = ts
          /\ ts_substances_data = refs(ts)
    /\ pw_obj = <<>>
    /\ pw_substance_data = <<>>
    /\ all_substance_names = <<>>
    /\ pos = 0
    /\ substance_data = <<>>
    /\ log = <<>>
    /\ pw_substance_urls_data = None
    /\ idx = 0
    /\ scraped = None
    /\ attempt = 0
    /\ abort = ""
    /\ pc = "urls"
    /\ exit_code = None
    /\ output_file = None

NextRun ==
    \/ FetchUrlsAttempt
    \/ FetchPage
    \/ QueryAttempt
    \/ FetchLoopEnd
    \/ MergeIteration
    \/ WriteOutput
    \/ InterruptOutsideLoop

SpecRun == InitRun /\ [][NextRun]_vars

\* ------------------------------------------------------------------- claims

\* The references a list of optional references names.
Found(field) == {log[i][field][1] : i \in {k \in 1..Len(log) : log[k][field] # None}}

\* The reconciliation loop has visited every name without raising.
LoopFinished == pc \in {"merge", "done"} /\ pos = Len(all_substance_names)

\* C1: consume-once.  No PsychonautWiki record and no TripSit record is
\* returned by find_substance_in_data in two iterations of the loop, and a
\* record that was returned is no longer in its list, whatever later name
\* matches it.
C1_ConsumeOnce ==
    /\ \A i, j \in 1..Len(log) :
          i # j => /\ log[i].pw = None \/ log[i].pw # log[j].pw
                   /\ log[i].ts = None \/ log[i].ts # log[j].ts
    /\ Found("pw") \cap Range(pw_substance_data) = {}
    /\ Found("ts") \cap Range(ts_substances_data) = {}

\* C1's case: a record consumed for one name, and a later visited name that
\* matches that record too (in each source).
C1_Witness ==
    /\ \E i, j \in 1..Len(log) :
          /\ i < j
          /\ log[i].pw # None
          /\ substance_name_match(log[j].name, pw_obj[log[i].pw[1]])
    /\ \E i, j \in 1..Len(log) :
          /\ i < j
          /\ log[i].ts # None
          /\ substance_name_match(log[j].name, ts_obj[log[i].ts[1]])

\* C2, as stated: no two entries of the output have the same display name.
C2_UniqueNames ==
    \A i, j \in 1..Len(substance_data) :
        i # j => substance_data[i].name # substance_data[j].name

\* The PsychonautWiki records' lowercased primary names are pairwise distinct.
PwNamesDistinct ==
    \A r, q \in DOMAIN pw_obj :
        r # q => lower(pw_obj[r].name[1]) # lower(pw_obj[q].name[1])

\* Some record's primary name is an alias of a record earlier in the list
\* (references are numbered in list order).
PwNameIsEarlierAlias ==
    \E r, q \in DOMAIN pw_obj :
        /\ q < r
        /\ lower(pw_obj[r].name[1]) \in
              {lower(a) : a \in Range(get_list(pw_obj[q].aliases))}

has_usable_route(rec) ==
    \E i \in 1..Len(get_list(rec.roas)) :
        /\ rec.roas[1][i].duration # None
        /\ rec.roas[1][i].duration[1] # JsonNull

\* Every PsychonautWiki record was consumed, and each one that has a route
\* with a duration is behind exactly one entry of the output.
NoPwDataLost ==
    /\ pw_substance_data = <<>>
    /\ \A r \in DOMAIN pw_obj :
          has_usable_route(pw_obj[r]) =>
             /\ Cardinality({i \in 1..Len(log) :
                               log[i].pw = Some(r) /\ log[i].outcome = "emit"}) = 1
             /\ \A i \in 1..Len(log) :
                   log[i].pw = Some(r) =>
                      substance_data[log[i].entry[1]].roas =
                         roaresult(get_list(pw_obj[r].roas))

\* C10, as stated: with pairwise distinct lowercased primary names, no
\* PsychonautWiki record is left over when the loop finishes.
C10_NoPwDataLost_AsStated ==
    (LoopFinished /\ PwNamesDistinct) => NoPwDataLost

\* C10, amended: the same, for lists in which moreover no record's primary
\* name is an alias of a record that occurs earlier in the list.
C10_NoPwDataLost ==
    (LoopFinished /\ PwNamesDistinct /\ ~PwNameIsEarlierAlias) => NoPwDataLost

\* C10's case: the loop finished on two records with distinct names, the
\* first one's name being an alias of the second, and both were emitted.
C10_Witness ==
    /\ LoopFinished
    /\ PwNamesDistinct
    /\ ~PwNameIsEarlierAlias
    /\ \E r, q \in DOMAIN pw_obj :
          /\ r < q
          /\ lower(pw_obj[r].name[1]) \in
                {lower(a) : a \in Range(get_list(pw_obj[q].aliases))}
    /\ Len(substance_data) = 2

\* The iterations that merged something, and the records they merged.
Merged == {i \in 1..Len(log) : log[i].outcome \in {"drop", "emit"}}
Emitted == {i \in 1..Len(log) : log[i].outcome = "emit"}
pw_of(i) == IF log[i].pw = None THEN EmptyDict ELSE pw_obj[log[i].pw[1]]
ts_of(i) == IF log[i].ts = None THEN EmptyDict ELSE ts_input[log[i].ts[1]]
entry_of(i) == substance_data[log[i].entry[1]]

\* C3: every entry of the output has at least one route and only routes with
\* a duration; an iteration that found no PsychonautWiki record, or one
\* without a route that has a duration, emits nothing.
C3_OnlyUsableRoas ==
    /\ \A k \in 1..Len(substance_data) :
          /\ Len(substance_data[k].roas) >= 1
          /\ \A n \in 1..Len(substance_data[k].roas) :
                /\ substance_data[k].roas[n].duration # None
                /\ substance_data[k].roas[n].duration[1] # JsonNull
    /\ \A i \in Emitted : log[i].pw # None /\ has_usable_route(pw_of(i))

\* C3's case: an entry whose record had a route without duration filtered
\* out, beside a name found in TripSit only, which was dropped.
C3_Witness ==
    /\ \E i \in Emitted : Len(entry_of(i).roas) < Len(pw_of(i).roas[1])
    /\ \E i \in Merged : log[i].pw = None /\ log[i].ts # None
                         /\ log[i].outcome = "drop"

\* The names a merged entry's aliases are drawn from.
alias_sources(i) ==
    Range(nonempty(<<pw_of(i).name, ts_of(i).pretty_name>>))
       \cup Range(get_list(pw_of(i).aliases))
       \cup Range(get_list(ts_of(i).aliases))

\* Where the k-th of xs starts in xs joined by a one-character separator.
RECURSIVE offset(_, _)
offset(xs, k) == IF k = 1 THEN 0 ELSE offset(xs, k - 1) + Len(xs[k - 1]) + 1

\* t is xs joined by commas: every element in its place, a comma between.
is_comma_joined(t, xs) ==
    /\ Len(t) = IF xs = <<>> THEN 0 ELSE offset(xs, Len(xs)) + Len(xs[Len(xs)])
    /\ \A k \in 1..Len(xs) :
          /\ \A n \in 1..Len(xs[k]) : t[offset(xs, k) + n] = xs[k][n]
          /\ k > 1 => t[offset(xs, k)] = 44

\* C4: an entry's aliases are strictly ascending (so duplicate-free), each is
\* lowercase and the lowercase of one of the sources' names or aliases, none
\* is the lowercased display name, and aliasesStr is the aliases comma-joined.
C4_Aliases ==
    \A i \in Emitted :
        LET e == entry_of(i) IN
        /\ \A k \in 1..(Len(e.aliases) - 1) : str_lt(e.aliases[k], e.aliases[k + 1])
        /\ \A k \in 1..Len(e.aliases) :
              /\ e.aliases[k] = lower(e.aliases[k])
              /\ \E n \in alias_sources(i) : e.aliases[k] = lower(n)
        /\ lower(e.name) \notin Range(e.aliases)
        /\ is_comma_joined(e.aliasesStr, e.aliases)

\* C4's case: an entry with two aliases or more, whose sources held the
\* display name and some alias in several spellings.
C4_Witness ==
    \E i \in Emitted :
        /\ Len(entry_of(i).aliases) >= 2
        /\ \E n \in alias_sources(i) :
              n # entry_of(i).name /\ lower(n) = lower(entry_of(i).name)
        /\ \E n, m \in alias_sources(i) :
              n # m /\ lower(n) = lower(m) /\ lower(n) \in Range(entry_of(i).aliases)

\* C6, as stated: no iteration of the reconciliation loop raises.
C6_MergeNeverRaises == \A i \in 1..Len(log) : log[i].outcome # "raise"

\* The two candidate display names of a merged iteration, where usable.
usable(opt) == opt # None /\ opt[1] # <<>>

\* C8: the display name chosen is the PsychonautWiki name unless the TripSit
\* pretty_name is strictly shorter (or the only one of the two).
C8_ShortestName ==
    \A i \in Merged :
        LET a == pw_of(i).name
            b == ts_of(i).pretty_name
        IN /\ usable(a) \/ usable(b)
           /\ log[i].chosen =
                 IF usable(a) /\ usable(b)
                 THEN (IF Len(b[1]) < Len(a[1]) THEN b ELSE a)
                 ELSE IF usable(a) THEN a ELSE b
           /\ log[i].outcome = "emit" => Some(entry_of(i).name) = log[i].chosen

\* C8's case: a tie between two different names, settled for the
\* PsychonautWiki name.
C8_Witness ==
    \E i \in Emitted :
        /\ usable(ts_of(i).pretty_name)
        /\ Len(ts_of(i).pretty_name[1]) = Len(pw_of(i).name[1])
        /\ ts_of(i).pretty_name # pw_of(i).name
        /\ entry_of(i).name = pw_of(i).name[1]

\* C9, as stated: the merge leaves the records of both sources as they were.
C9_InputsUnchanged == ts_obj = ts_input

\* C5, as stated: a point query is attempted three times at most, and when
\* all three attempts raised the run goes on.
C5_ExhaustedQueryGoesOn ==
    /\ attempt <= MaxAttempts
    /\ (scraped # None /\ attempt = MaxAttempts) => pc # "exit"

FetchLoopDone ==
    /\ pw_substance_urls_data # None
    /\ idx = Len(pw_substance_urls_data[1])

\* C7: the output file exists only once the fetch loop went through every
\* item and nothing ended the run, and then holds the whole output list; a
\* run ended by the loop's handlers has exit code 1 (an exception) or 0 (an
\* interrupt) and no output file.
C7_NoPartialOutput ==
    /\ output_file # None =>
          /\ FetchLoopDone
          /\ abort = ""
          /\ pc = "done"
          /\ pos = Len(all_substance_names)
          /\ output_file = Some(substance_data)
    /\ abort = "exception" =>
          pc = "exit" /\ exit_code = Some(1) /\ output_file = None
    /\ abort = "interrupt" =>
          pc = "exit" /\ exit_code = Some(0) /\ output_file = None
    /\ abort # "" => output_file = None

\* C7's case: the run was ended by an exception on a later item, after a
\* record of an earlier item had been collected.
C7_Witness ==
    /\ abort = "exception"
    /\ idx >= 1
    /\ pw_substance_data # <<>>

====
